---------------------------- MODULE Spec2Model ----------------------------
(***************************************************************************)
(* A model of src/connection.py: class Socket, the connection/channel      *)
(* runtime of a Phoenix-channels client.                                   *)
(*                                                                         *)
(* The state is one Socket object, the transport it holds, the Channels    *)
(* registered on it, and the two coroutines (_listen, _keep_alive) that    *)
(* Socket.listen gathers on the asyncio event loop.                        *)
(*                                                                         *)
(* Entry points.  set_channel and listen are the names the class exports:  *)
(* both are the `wrapper` closure that the decorator ensure_connection     *)
(* returns.  func_set_channel and func_listen are the functions the        *)
(* decorator wraps (lines 102-111 and 38-45) applied to their arguments;   *)
(* _listen and _keep_alive are plain methods.  Channel, Message and the    *)
(* protocol constants live in channel.py and messages.py, which are not    *)
(* part of src/: they are modelled from the specification.                 *)
(*                                                                         *)
(* Scheduling.  asyncio is cooperative: a coroutine runs until its next    *)
(* await.  The only awaits are recv() in _listen and send()/sleep() in     *)
(* _keep_alive, so the dispatch loop of _listen (lines 55-61) runs with no *)
(* step of _keep_alive in between.  The model covers one call of the       *)
(* function listen per Socket.                                             *)
(***************************************************************************)
EXTENDS Integers, Sequences, FiniteSets, TLC

\* ------------------------------------------------------------- bounds
MaxChannels == 2    \* Channel objects created
MaxListeners == 2   \* Listeners registered, over all Channels

\* ---------------------------------------------------- protocol constants
None == "None"
Handle == "ws"       \* the protocol object websockets.connect returns
PHOENIX_CHANNEL == "phoenix"
HEARTBEAT_PAYLOAD == "ping"
ChannelEvents_heartbeat == "heartbeat"
ChannelEvents_reply == "phx_reply"

Topics == {"room:1", "room:2"}
Events == {"new_msg", ChannelEvents_reply}     \* events Listeners are registered for
Payloads == {"hi"}
MessageFields == {"topic", "event", "payload", "ref"}

VARIABLES
    connected,      \* self.connected
    ws_connection,  \* self.ws_connection: None, or the Handle held
    ws_open,        \* whether the transport behind ws_connection is open
    channels,       \* self.channels: topic -> sequence of Channel ids
    chans,          \* the Channel objects, by id: [topic, listeners]
    result,         \* outcome of the last call of connect, set_channel, listen
                    \* or func_listen: [op, exc, ret]; NoResult after another call
    runState,       \* run_until_complete(gather(...)): idle/running/returned/raised
    l_pc,           \* _listen: none/recv/dispatch/done/failed
    l_exc,          \* the exception that ended _listen, if any
    msg,            \* the Message last decoded (NoMsg: none, or the frame did not decode)
    cur,            \* dispatch cursor <<channel index, listener index>>: next to examine
    invoked,        \* callbacks invoked for msg, in order: [chan, idx, arg, outcome]
    k_pc,           \* _keep_alive: none/send/sleep/done/failed
    k_exc,          \* the exception that ended _keep_alive, if any
    wire            \* the last frame sent on the transport (NoFrame: none yet)

sockVars == <<connected, ws_connection, ws_open>>
regVars == <<channels, chans>>
listenVars == <<l_pc, l_exc, msg, cur, invoked>>
hbVars == <<k_pc, k_exc, wire>>
vars == <<connected, ws_connection, ws_open, channels, chans, result,
          runState, l_pc, l_exc, msg, cur, invoked, k_pc, k_exc, wire>>

NoFrame == [valid |-> FALSE, members |-> <<>>]
NoMsg == [topic |-> None, event |-> None, payload |-> None, ref |-> None]
\* A call's return value is a set: {} for None, {id} for the Channel id.
NoResult == [op |-> None, exc |-> None, ret |-> {}]

\* Socket.__init__ (lines 29-35); no coroutine exists yet.
Init ==
    /\ connected = FALSE
    /\ ws_connection = None
    /\ ws_open = FALSE
    /\ channels = [t \in {} |-> <<>>]
    /\ chans = <<>>
    /\ result = NoResult
    /\ runState = "idle"
    /\ l_pc = "none" /\ l_exc = None /\ msg = NoMsg /\ cur = <<1, 1>> /\ invoked = <<>>
    /\ k_pc = "none" /\ k_exc = None /\ wire = NoFrame

\* The caller's script: it sets the Socket up and calls listen last ("this should
\* be the last method executed", line 41); the model ends with that call's end.
CallerFree == runState = "idle"

\* ------------------------------------------------------------ connect
ConnectOutcomes == {"refused", "not_open", "open"}

\* _connect: what it raises (None: nothing) for each behaviour of websockets.connect.
\* "refused": websockets.connect raises; "not_open": it returns a handle whose
\* .open is False; "open": it returns an open handle.
ConnectRaises(outcome) ==
    CASE outcome = "refused" -> "OSError"
      [] outcome = "not_open" -> "Exception"
      [] OTHER -> None

\* Mutant: the handle is recorded before its .open is looked at.
_connect_records_first(outcome) ==
    IF outcome = "open"
    THEN /\ ws_connection' = Handle
         /\ ws_open' = TRUE
         /\ connected' = TRUE
    ELSE IF outcome = "not_open"
    THEN /\ ws_connection' = Handle
         /\ ws_open' = FALSE
         /\ UNCHANGED connected
    ELSE UNCHANGED <<ws_connection, ws_open, connected>>

\* _connect's writes to the Socket (lines 78-81).
_connect(outcome) ==
    IF outcome = "open"
    THEN /\ ws_connection' = Handle
         /\ ws_open' = TRUE
         /\ connected' = TRUE
    ELSE UNCHANGED <<ws_connection, ws_open, connected>>

\* Socket.connect (lines 67-73): line 73 runs only when _connect returned.
connect(outcome) ==
    /\ CallerFree
    /\ _connect(outcome)
    /\ result' = [op |-> "connect", exc |-> ConnectRaises(outcome), ret |-> {}]
    /\ UNCHANGED <<regVars, runState, listenVars, hbVars>>

\* The peer, or the network, closes the transport the Socket holds.
TransportCloses ==
    /\ ws_connection # None
    /\ ws_open
    /\ ws_open' = FALSE
    /\ UNCHANGED <<connected, ws_connection, regVars, result, runState,
                   listenVars, hbVars>>

\* ------------------------------------------------- ensure_connection
\* Binding a call's arguments to a function's parameters: Python raises
\* TypeError when a positional parameter gets no argument.
Bind(params, args) == IF Len(args) = Len(params) THEN None ELSE "TypeError"

\* The arguments wrapper passes on to func: line 16 is `func()`.
Forwarded(args) == <<>>

\* Mutant: a wrapper without the check of lines 13-14.
ensure_connection_unchecked(params, args) == Bind(params, Forwarded(args))

\* wrapper(*args) (lines 12-16): the exception it ends with, or None when func
\* was entered.
ensure_connection(params, args) ==
    IF ~connected THEN "NotConnectedError" ELSE Bind(params, Forwarded(args))

\* What wrapper returns to its caller when func returned ret: line 16 drops it.
WrapperReturn(ret) == {}

\* ------------------------------------------------------- set_channel
NewChannel(topic) == [topic |-> topic, listeners |-> <<>>]

ChannelList(reg, topic) == IF topic \in DOMAIN reg THEN reg[topic] ELSE <<>>

\* Mutant: the new Channel put at the head of the topic's list.
AppendChannel_front(reg, topic, id) ==
    [t \in DOMAIN reg \cup {topic} |->
        IF t = topic THEN <<id>> \o ChannelList(reg, topic) ELSE reg[t]]

\* self.channels[topic].append(chan) on a defaultdict(list) (line 109): the
\* lookup creates the key.
AppendChannel(reg, topic, id) ==
    [t \in DOMAIN reg \cup {topic} |->
        IF t = topic THEN Append(ChannelList(reg, topic), id) ELSE reg[t]]

\* The body of set_channel (lines 108-111); it returns the new Channel.
set_channel_body(topic) ==
    /\ chans' = Append(chans, NewChannel(topic))
    /\ channels' = AppendChannel(channels, topic, Len(chans) + 1)

\* The function at lines 102-111 applied to (self, topic).
func_set_channel(topic) ==
    /\ CallerFree
    /\ Len(chans) < MaxChannels
    /\ set_channel_body(topic)
    /\ result' = NoResult
    /\ UNCHANGED <<sockVars, runState, listenVars, hbVars>>

\* socket.set_channel(topic): the wrapper around it (lines 101-102).
set_channel(topic) ==
    LET exc == ensure_connection(<<"self", "topic">>, <<"self", topic>>) IN
    /\ CallerFree
    /\ IF exc = None
       THEN /\ Len(chans) < MaxChannels
            /\ set_channel_body(topic)
            /\ result' = [op |-> "set_channel", exc |-> None,
                          ret |-> WrapperReturn({Len(chans) + 1})]
       ELSE /\ UNCHANGED regVars
            /\ result' = [op |-> "set_channel", exc |-> exc, ret |-> {}]
    /\ UNCHANGED <<sockVars, runState, listenVars, hbVars>>

\* ---------------------------------------------------------- Channel
NumListeners == LET n[i \in 0..Len(chans)] ==
                        IF i = 0 THEN 0 ELSE n[i - 1] + Len(chans[i].listeners)
                IN n[Len(chans)]

\* Channel.on(event, callback): appends a Listener to the Channel.
on(id, event) ==
    /\ CallerFree
    /\ id \in 1..Len(chans)
    /\ NumListeners < MaxListeners
    /\ chans' = [chans EXCEPT ![id].listeners = Append(@, [event |-> event])]
    /\ result' = NoResult
    /\ UNCHANGED <<sockVars, channels, runState, listenVars, hbVars>>

\* ---------------------------------------------------------- summary
\* The attributes a Channel object has: the topic it is bound to and its
\* listeners (the attribute line 59 reads).
ChannelAttributes == DOMAIN NewChannel("room:1")

\* The Channels the loops of lines 119-120 visit: every Channel of every list.
SummaryVisits ==
    UNION {{channels[t][i] : i \in 1..Len(channels[t])} : t \in DOMAIN channels}

\* Line 121 reads chan.callbacks of each Channel visited, before it prints:
\* reading an attribute the object does not have raises AttributeError.
SummaryRaises ==
    IF SummaryVisits # {} /\ "callbacks" \notin ChannelAttributes
    THEN "AttributeError"
    ELSE None

\* What line 121 prints, as <<topic, event>> pairs: the first components of the
\* pairs in chan.callbacks, for each Channel visited.
SummaryPrints ==
    IF SummaryVisits = {} \/ SummaryRaises # None
    THEN {}
    ELSE UNION {UNION {{<<t, chans[channels[t][i]].callbacks[j][1]>> :
                            j \in 1..Len(chans[channels[t][i]].callbacks)} :
                       i \in 1..Len(channels[t])} : t \in DOMAIN channels}

\* Socket.summary (lines 114-121); it is not decorated.
summary ==
    /\ CallerFree
    /\ result' = [op |-> "summary", exc |-> SummaryRaises, ret |-> SummaryPrints]
    /\ UNCHANGED <<sockVars, regVars, runState, listenVars, hbVars>>

\* ------------------------------------------------------------- JSON
\* A frame on the wire is JSON text: [valid, members], members the object's
\* <<key, value>> pairs in the order written; text that is no JSON has valid = FALSE.
\* json.dumps writes a dict's items in insertion order and None as null.
json_dumps(items) ==
    [valid |-> TRUE,
     members |-> [i \in 1..Len(items) |->
                    <<items[i][1], IF items[i][2] = None THEN "null" ELSE items[i][2]>>]]

JsonKeys(text) == {text.members[i][1] : i \in 1..Len(text.members)}

\* json.loads of an object: a dict, the last member of a key winning, null as None.
json_loads(text) ==
    [k \in JsonKeys(text) |->
        LET last == CHOOSE i \in 1..Len(text.members) :
                        /\ text.members[i][1] = k
                        /\ \A j \in (i + 1)..Len(text.members) : text.members[j][1] # k
            v == text.members[last][2]
        IN IF v = "null" THEN None ELSE v]

\* Message(**d): a record of exactly the fields topic, event, payload, ref;
\* a missing or an unexpected keyword is a TypeError.
MessageAccepts(d) == DOMAIN d = MessageFields

Message(d) == [topic |-> d["topic"], event |-> d["event"],
               payload |-> d["payload"], ref |-> d["ref"]]

\* Line 55: the exception decoding raises, or None.
DecodeRaises(text) ==
    IF ~text.valid THEN "JSONDecodeError"
    ELSE IF ~MessageAccepts(json_loads(text)) THEN "TypeError"
    ELSE None

WireFrame(t, e, p, r) ==
    [valid |-> TRUE,
     members |-> <<(<<"topic", t>>), (<<"event", e>>), (<<"payload", p>>), (<<"ref", r>>)>>]

\* What the server may send: well-formed frames, a frame without ref, a frame
\* with a field too many, and text that is no JSON.  Topics are interchangeable,
\* so the well-formed frames are those of one topic (Channels exist for both);
\* their event is one some Listener may be registered for, one no Listener is
\* registered for, or the reply event.
FrameTopics == {"room:1"}
FrameEvents == {"new_msg", "typing", ChannelEvents_reply}
InboundFrames ==
    {WireFrame(t, e, p, "1") : t \in FrameTopics, e \in FrameEvents, p \in Payloads}
    \cup {[valid |-> TRUE,
            members |-> <<(<<"topic", "room:1">>), (<<"event", "new_msg">>),
                          (<<"payload", "hi">>)>>],
          [valid |-> TRUE,
            members |-> <<(<<"topic", "room:1">>), (<<"event", "new_msg">>),
                          (<<"payload", "hi">>), (<<"ref", "1">>), (<<"join_ref", "1">>)>>],
          [valid |-> FALSE, members |-> <<>>]}

\* ------------------------------------------------------------ listen
\* The body of listen (lines 44-45): gather schedules both coroutines and the
\* caller stays in run_until_complete.
listen_body ==
    /\ runState' = "running"
    /\ l_pc' = "recv"
    /\ k_pc' = "send"
    /\ UNCHANGED <<l_exc, msg, cur, invoked, k_exc, wire>>

\* The function at lines 38-45 applied to (self).
func_listen ==
    /\ CallerFree
    /\ listen_body
    /\ result' = [op |-> "func_listen", exc |-> None, ret |-> {}]
    /\ UNCHANGED <<sockVars, regVars>>

\* socket.listen(): the wrapper around it (lines 37-38).
listen ==
    LET exc == ensure_connection(<<"self">>, <<"self">>) IN
    /\ CallerFree
    /\ IF exc = None
       THEN /\ listen_body
            /\ result' = [op |-> "listen", exc |-> None, ret |-> {}]
       ELSE /\ UNCHANGED <<runState, listenVars, hbVars>>
            /\ result' = [op |-> "listen", exc |-> exc, ret |-> {}]
    /\ UNCHANGED <<sockVars, regVars>>

\* The event loop runs a coroutine only between run_until_complete's start and
\* its end, and one coroutine at a time: while _listen is between two awaits
\* (dispatching), nothing else runs.
LoopRuns == runState = "running"

\* ------------------------------------------------------------ _listen
\* Mutant: a dispatcher that does not know the reply sentinel.
IsReply_never(m) == FALSE

\* Line 56.
IsReply(m) == m.event = ChannelEvents_reply

\* self.channels.get(msg.topic, []) (line 58): a plain lookup; dict.get leaves
\* the dict as it is (no key is created, unlike self.channels[topic]).
Lookup(reg, topic) == IF topic \in DOMAIN reg THEN reg[topic] ELSE <<>>

\* Mutant: self.channels[msg.topic] on the defaultdict, which creates the key.
AfterLookup_getitem(reg, topic) ==
    [t \in DOMAIN reg \cup {topic} |-> IF t \in DOMAIN reg THEN reg[t] ELSE <<>>]

AfterLookup(reg, topic) == reg

\* Mutant: a receive loop that catches the decode failure of a frame and goes
\* on with the next frame.
ListenRecv_skips_undecodable(text) ==
    /\ LoopRuns
    /\ l_pc = "recv"
    /\ IF ws_connection = None
       THEN /\ l_pc' = "failed" /\ l_exc' = "AttributeError"
            /\ UNCHANGED <<msg, cur, invoked>>
       ELSE IF ~ws_open
       THEN /\ l_pc' = "done"
            /\ UNCHANGED <<l_exc, msg, cur, invoked>>
       ELSE IF DecodeRaises(text) # None
       THEN /\ msg' = NoMsg /\ invoked' = <<>>
            /\ UNCHANGED <<l_pc, l_exc, cur>>
       ELSE IF IsReply(Message(json_loads(text)))
       THEN /\ msg' = Message(json_loads(text))
            /\ invoked' = <<>>
            /\ UNCHANGED <<l_pc, l_exc, cur>>
       ELSE /\ l_pc' = "dispatch"
            /\ msg' = Message(json_loads(text))
            /\ cur' = <<1, 1>>
            /\ invoked' = <<>>
            /\ UNCHANGED l_exc
    /\ UNCHANGED <<sockVars, regVars, result, runState, hbVars>>

\* Lines 54-57: recv() raises ConnectionClosed on a closed transport (lines
\* 63-65: break), else returns a frame; an undecodable frame raises out of the
\* coroutine; a reply is skipped; any other Message starts the loops of line 58.
ListenRecv(text) ==
    /\ LoopRuns
    /\ l_pc = "recv"
    /\ IF ws_connection = None
       THEN /\ l_pc' = "failed" /\ l_exc' = "AttributeError"
            /\ UNCHANGED <<msg, cur, invoked>>
       ELSE IF ~ws_open
       THEN /\ l_pc' = "done"
            /\ UNCHANGED <<l_exc, msg, cur, invoked>>
       ELSE IF DecodeRaises(text) # None
       THEN /\ l_pc' = "failed" /\ l_exc' = DecodeRaises(text)
            /\ msg' = NoMsg /\ invoked' = <<>>
            /\ UNCHANGED cur
       ELSE IF IsReply(Message(json_loads(text)))
       THEN /\ msg' = Message(json_loads(text))
            /\ invoked' = <<>>
            /\ UNCHANGED <<l_pc, l_exc, cur>>
       ELSE /\ l_pc' = "dispatch"
            /\ msg' = Message(json_loads(text))
            /\ cur' = <<1, 1>>
            /\ invoked' = <<>>
            /\ UNCHANGED l_exc
    /\ channels' = IF /\ ws_connection # None /\ ws_open
                      /\ DecodeRaises(text) = None
                      /\ ~IsReply(Message(json_loads(text)))
                   THEN AfterLookup(channels, Message(json_loads(text)).topic)
                   ELSE channels
    /\ UNCHANGED <<sockVars, chans, result, runState, hbVars>>

\* Mutant: a dispatcher that does not compare the events.
Matches_any(listener, m) == TRUE

\* Line 60.
Matches(listener, m) == listener.event = m.event

\* The argument line 61 passes to the callback.
CallbackArg(m) == m.payload

\* The cursor positions of the two for loops (lines 58-59), in iteration order.
Positions(m) ==
    LET cl == Lookup(channels, m.topic)
        from[i \in 1..(Len(cl) + 1)] ==
            IF i > Len(cl) THEN <<>>
            ELSE [j \in 1..Len(chans[cl[i]].listeners) |-> <<i, j>>] \o from[i + 1]
    IN from[1]

ListenerAt(m, pos) == chans[Lookup(channels, m.topic)[pos[1]]].listeners[pos[2]]

\* The positions still to examine, from the cursor on.
Remaining(m, c) ==
    SelectSeq(Positions(m), LAMBDA pos : pos[1] > c[1] \/ (pos[1] = c[1] /\ pos[2] >= c[2]))

\* The next position from the cursor on whose listener matches, if any.
NextMatch(m, c) ==
    SelectSeq(Remaining(m, c), LAMBDA pos : Matches(ListenerAt(m, pos), m))

\* Mutant: a dispatch that wraps each callback call in a try and goes on with
\* the next Listener when the callback raises.
Dispatch_isolates(outcome) ==
    /\ LoopRuns
    /\ l_pc = "dispatch"
    /\ IF NextMatch(msg, cur) = <<>>
       THEN /\ outcome = "returns"
            /\ l_pc' = "recv"
            /\ cur' = <<1, 1>>
            /\ UNCHANGED <<l_exc, msg, invoked>>
       ELSE LET pos == Head(NextMatch(msg, cur)) IN
            /\ invoked' = Append(invoked,
                    [chan |-> Lookup(channels, msg.topic)[pos[1]], idx |-> pos[2],
                     arg |-> CallbackArg(msg), outcome |-> outcome])
            /\ cur' = <<pos[1], pos[2] + 1>>
            /\ UNCHANGED <<l_pc, l_exc, msg>>
    /\ UNCHANGED <<sockVars, regVars, result, runState, hbVars>>

\* Lines 58-61, up to and including the next callback call: the loops skip the
\* listeners that do not match; the callback returns or raises; when no
\* listener is left the while loop awaits recv() again.
Dispatch(outcome) ==
    /\ LoopRuns
    /\ l_pc = "dispatch"
    /\ IF NextMatch(msg, cur) = <<>>
       THEN /\ outcome = "returns"
            /\ l_pc' = "recv"
            /\ cur' = <<1, 1>>
            /\ UNCHANGED <<l_exc, msg, invoked>>
       ELSE LET pos == Head(NextMatch(msg, cur)) IN
            /\ invoked' = Append(invoked,
                    [chan |-> Lookup(channels, msg.topic)[pos[1]], idx |-> pos[2],
                     arg |-> CallbackArg(msg), outcome |-> outcome])
            /\ cur' = <<pos[1], pos[2] + 1>>
            /\ IF outcome = "raises"
               THEN l_pc' = "failed" /\ l_exc' = "CallbackError"
               ELSE UNCHANGED <<l_pc, l_exc>>
            /\ UNCHANGED msg
    /\ UNCHANGED <<sockVars, regVars, result, runState, hbVars>>

\* -------------------------------------------------------- _keep_alive
\* Mutant: a heartbeat that carries a reference id.
HeartbeatData_ref ==
    <<(<<"topic", PHOENIX_CHANNEL>>), (<<"event", ChannelEvents_heartbeat>>),
      (<<"payload", HEARTBEAT_PAYLOAD>>), (<<"ref", "1">>)>>

\* Line 93.
HeartbeatData ==
    <<(<<"topic", PHOENIX_CHANNEL>>), (<<"event", ChannelEvents_heartbeat>>),
      (<<"payload", HEARTBEAT_PAYLOAD>>), (<<"ref", None>>)>>

\* Mutant: a heartbeat loop without the except clause of lines 96-99.
KeepAliveSend_uncaught ==
    /\ LoopRuns
    /\ l_pc # "dispatch"
    /\ k_pc = "send"
    /\ IF ws_connection = None
       THEN /\ k_pc' = "failed" /\ k_exc' = "AttributeError"
            /\ UNCHANGED wire
       ELSE IF ~ws_open
       THEN /\ k_pc' = "failed" /\ k_exc' = "ConnectionClosed"
            /\ UNCHANGED wire
       ELSE /\ wire' = json_dumps(HeartbeatData)
            /\ k_pc' = "sleep"
            /\ UNCHANGED k_exc
    /\ UNCHANGED <<sockVars, regVars, result, runState, listenVars>>

\* Mutant: a heartbeat loop that reconnects when its send finds the transport
\* closed.
KeepAliveSend_reconnect ==
    /\ LoopRuns
    /\ l_pc # "dispatch"
    /\ k_pc = "send"
    /\ IF ws_connection = None
       THEN /\ k_pc' = "failed" /\ k_exc' = "AttributeError"
            /\ UNCHANGED <<wire, sockVars>>
       ELSE IF ~ws_open
       THEN /\ ws_open' = TRUE
            /\ UNCHANGED <<k_pc, k_exc, wire, connected, ws_connection>>
       ELSE /\ wire' = json_dumps(HeartbeatData)
            /\ k_pc' = "sleep"
            /\ UNCHANGED <<k_exc, sockVars>>
    /\ UNCHANGED <<regVars, result, runState, listenVars>>

\* Mutant: a heartbeat loop that catches ConnectionClosed and tries again
\* after the interval instead of leaving the loop.
KeepAliveSend_retries ==
    /\ LoopRuns
    /\ l_pc # "dispatch"
    /\ k_pc = "send"
    /\ IF ws_connection = None
       THEN /\ k_pc' = "failed" /\ k_exc' = "AttributeError"
            /\ UNCHANGED wire
       ELSE IF ~ws_open
       THEN /\ k_pc' = "sleep"
            /\ UNCHANGED <<k_exc, wire>>
       ELSE /\ wire' = json_dumps(HeartbeatData)
            /\ k_pc' = "sleep"
            /\ UNCHANGED k_exc
    /\ UNCHANGED <<sockVars, regVars, result, runState, listenVars>>

\* Mutant: a heartbeat on a thread of its own, which sends whatever _listen
\* is doing.
KeepAliveSend_preempts ==
    /\ LoopRuns
    /\ k_pc = "send"
    /\ IF ws_connection = None
       THEN /\ k_pc' = "failed" /\ k_exc' = "AttributeError"
            /\ UNCHANGED wire
       ELSE IF ~ws_open
       THEN /\ k_pc' = "done"
            /\ UNCHANGED <<k_exc, wire>>
       ELSE /\ wire' = json_dumps(HeartbeatData)
            /\ k_pc' = "sleep"
            /\ UNCHANGED k_exc
    /\ UNCHANGED <<sockVars, regVars, result, runState, listenVars>>

\* Line 94: send() raises ConnectionClosed on a closed transport (lines 96-99:
\* break), else the frame goes out and the coroutine sleeps (line 95).
KeepAliveSend ==
    /\ LoopRuns
    /\ l_pc # "dispatch"
    /\ k_pc = "send"
    /\ IF ws_connection = None
       THEN /\ k_pc' = "failed" /\ k_exc' = "AttributeError"
            /\ UNCHANGED wire
       ELSE IF ~ws_open
       THEN /\ k_pc' = "done"
            /\ UNCHANGED <<k_exc, wire>>
       ELSE /\ wire' = json_dumps(HeartbeatData)
            /\ k_pc' = "sleep"
            /\ UNCHANGED k_exc
    /\ UNCHANGED <<sockVars, regVars, result, runState, listenVars>>

\* Line 95: asyncio.sleep(self.hb_interval) is over.
KeepAliveWake ==
    /\ LoopRuns
    /\ l_pc # "dispatch"
    /\ k_pc = "sleep"
    /\ k_pc' = "send"
    /\ UNCHANGED <<sockVars, regVars, result, runState, listenVars, k_exc, wire>>

\* ------------------------------------------------- run_until_complete
\* Mutant: gather with the semantics of wait(FIRST_COMPLETED): the run ends as
\* soon as one coroutine has ended.
RunEnds_first_completed ==
    /\ LoopRuns
    /\ IF l_pc = "failed" \/ k_pc = "failed"
       THEN /\ runState' = "raised"
            /\ result' = [result EXCEPT !.exc = IF l_pc = "failed" THEN l_exc ELSE k_exc]
       ELSE /\ (l_pc = "done" \/ k_pc = "done")
            /\ runState' = "returned"
            /\ UNCHANGED result
    /\ UNCHANGED <<sockVars, regVars, listenVars, hbVars>>

\* Line 45: gather's future is done when both coroutines have returned, or as
\* soon as one has raised; run_until_complete then returns, or raises that
\* exception, to the caller of listen, and the loop stops.
RunEnds ==
    /\ LoopRuns
    /\ IF l_pc = "failed" \/ k_pc = "failed"
       THEN /\ runState' = "raised"
            /\ result' = [result EXCEPT !.exc = IF l_pc = "failed" THEN l_exc ELSE k_exc]
       ELSE /\ l_pc = "done" /\ k_pc = "done"
            /\ runState' = "returned"
            /\ UNCHANGED result
    /\ UNCHANGED <<sockVars, regVars, listenVars, hbVars>>

Next ==
    \/ \E o \in ConnectOutcomes : connect(o)
    \/ \E t \in Topics : set_channel(t)
    \/ \E t \in Topics : func_set_channel(t)
    \/ \E id \in 1..MaxChannels, e \in Events : on(id, e)
    \/ listen
    \/ func_listen
    \/ summary
    \/ \E f \in InboundFrames : ListenRecv(f)
    \/ \E o \in {"returns", "raises"} : Dispatch(o)
    \/ KeepAliveSend
    \/ KeepAliveWake
    \/ RunEnds
    \/ TransportCloses

Spec == Init /\ [][Next]_vars

\* The event loop runs every coroutine that is ready: a sleep ends, a send on
\* the transport completes or raises, a callback returns or raises, and
\* run_until_complete sees a finished gather.  _keep_alive, once ready, runs the
\* next time _listen awaits (the loop's ready queue is first in, first out):
\* its steps are disabled only while _listen dispatches, hence strong fairness.
\* Nothing makes the server send a frame, the transport close, or the caller
\* call.
FairSpec ==
    /\ Spec
    /\ SF_vars(KeepAliveSend)
    /\ SF_vars(KeepAliveWake)
    /\ WF_vars(\E o \in {"returns", "raises"} : Dispatch(o))
    /\ WF_vars(RunEnds)

\* A recv() on a transport that has closed does not wait for the server: it
\* raises ConnectionClosed as soon as the loop runs _listen again (line 54).
ListenRecvClosed ==
    /\ ws_connection # None
    /\ ~ws_open
    /\ \E f \in InboundFrames : ListenRecv(f)

ClosureFairSpec ==
    /\ FairSpec
    /\ WF_vars(ListenRecvClosed)

\* =================================================================== claims
\* C1: register_channel (Socket.set_channel) on a Socket on which connect() has
\* not succeeded fails with NotConnectedError and creates no Channel: the
\* topic -> channel mapping and the Channels are after the call what they were
\* before it.
C1_NotConnectedRejected ==
    [][\A t \in Topics :
          (set_channel(t) /\ ~connected)
              => /\ result'.op = "set_channel"
                 /\ result'.exc = "NotConnectedError"
                 /\ result'.ret = {}
                 /\ channels' = channels
                 /\ chans' = chans]_vars

\* C1 witness: set_channel was refused on a Socket that is not connected and
\* whose mapping is not empty.
C1_Witness ==
    /\ result.op = "set_channel"
    /\ result.exc = "NotConnectedError"
    /\ ~connected
    /\ DOMAIN channels # {}

\* C2 (as claimed): on a Connected Socket every register_channel(topic) returns
\* a new Channel and appends it to the topic's channel list, so that N calls
\* leave N distinct Channels there in call order.
C2_RegisterReturnsNewChannel ==
    [][\A t \in Topics :
          (set_channel(t) /\ connected)
              => /\ result'.exc = None
                 /\ result'.ret = {Len(chans) + 1}
                 /\ Len(chans') = Len(chans) + 1
                 /\ t \in DOMAIN channels'
                 /\ channels'[t] =
                        Append(IF t \in DOMAIN channels THEN channels[t] ELSE <<>>,
                               Len(chans) + 1)]_vars

\* ------------------------------------------------------------------ C3
\* The Channels registered under a topic, and the Listeners of those Channels
\* whose event is the Message's, as <<channel id, listener index>> pairs.
RegisteredUnder(topic) ==
    IF topic \in DOMAIN channels
    THEN {channels[topic][i] : i \in 1..Len(channels[topic])}
    ELSE {}

MatchingListeners(m) ==
    {p \in (1..Len(chans)) \X (1..MaxListeners) :
        /\ p[1] \in RegisteredUnder(m.topic)
        /\ p[2] <= Len(chans[p[1]].listeners)
        /\ chans[p[1]].listeners[p[2]].event = m.event}

InvokedListeners == {<<invoked[i].chan, invoked[i].idx>> : i \in 1..Len(invoked)}

\* A non-reply Message has been received and its dispatch is over.
DispatchOver == msg # NoMsg /\ msg.event # ChannelEvents_reply /\ l_pc # "dispatch"

SomeCallbackRaised == \E i \in 1..Len(invoked) : invoked[i].outcome = "raises"

\* C3 (as claimed): for every inbound Message whose event is not the reply
\* sentinel, the callbacks the dispatch invokes are exactly the Listeners, on
\* Channels registered under Message.topic, whose event equals Message.event,
\* each exactly once and with Message.payload.
C3_ExactlyMatchingInvoked ==
    DispatchOver =>
        /\ InvokedListeners = MatchingListeners(msg)
        /\ Len(invoked) = Cardinality(MatchingListeners(msg))
        /\ \A i \in 1..Len(invoked) : invoked[i].arg = msg.payload

\* C3 (amended): the callbacks invoked for a non-reply Message are Listeners on
\* Channels registered under Message.topic whose event equals Message.event,
\* each invoked at most once and with Message.payload; when every invoked
\* callback returns, the dispatch invokes all of them exactly once; a callback
\* that raises is the last one invoked and ends the receive activity.
C3_MatchingInvokedUnlessRaise ==
    /\ InvokedListeners \subseteq MatchingListeners(msg)
    /\ Len(invoked) = Cardinality(InvokedListeners)
    /\ \A i \in 1..Len(invoked) :
          /\ invoked[i].arg = msg.payload
          /\ invoked[i].outcome = "raises" => (i = Len(invoked) /\ l_pc = "failed")
    /\ (DispatchOver /\ ~SomeCallbackRaised) =>
          InvokedListeners = MatchingListeners(msg)
    /\ (invoked # <<>>) => (msg # NoMsg /\ msg.event # ChannelEvents_reply)

\* C3 witness: a dispatch is over, every callback returned, one Listener at
\* least was invoked and one registered Listener at least was not.
C3_Witness ==
    /\ DispatchOver
    /\ ~SomeCallbackRaised
    /\ invoked # <<>>
    /\ NumListeners > Len(invoked)

\* ------------------------------------------------------------------ C4
\* C4: for an inbound Message whose event is the reply sentinel no callback is
\* invoked, whatever is registered, and the receive activity goes on to the
\* next frame: it awaits recv() again (and ends only because a later recv()
\* finds the transport closed).
C4_ReplyDiscarded ==
    (msg # NoMsg /\ msg.event = ChannelEvents_reply) =>
        /\ invoked = <<>>
        /\ l_pc \in {"recv", "done"}
        /\ l_pc = "done" => ~ws_open
        /\ l_exc = None

\* C4 witness: a reply arrived on a topic with a Listener for the reply event.
C4_Witness ==
    /\ msg # NoMsg
    /\ msg.event = ChannelEvents_reply
    /\ l_pc = "recv"
    /\ MatchingListeners(msg) # {}

\* ------------------------------------------------------------------ C5
\* C5: for an inbound Message whose topic has no registered Channel the
\* dispatch is a no-op: no callback is invoked, nothing is raised, the receive
\* activity goes back to awaiting recv(), and the topic -> channel mapping gets
\* no entry for that topic.
C5_UnknownTopicNoOp ==
    /\ []((msg # NoMsg /\ msg.topic \notin DOMAIN channels) =>
            /\ invoked = <<>>
            /\ l_pc \in {"dispatch", "recv", "done"}
            /\ l_exc = None)
    /\ [][(l_pc = "recv" /\ msg' # msg /\ msg' # NoMsg /\ msg'.topic \notin DOMAIN channels)
              => channels' = channels]_vars
    /\ [][(l_pc = "dispatch" /\ msg.topic \notin DOMAIN channels /\ l_pc' # l_pc)
              => (l_pc' = "recv" /\ channels' = channels /\ invoked' = <<>>)]_vars

\* C5 witness: a Message for a topic without Channel was dispatched while
\* another topic has a Listener for its event.
C5_Witness ==
    /\ DispatchOver
    /\ l_pc = "recv"
    /\ msg.topic \notin DOMAIN channels
    /\ \E c \in 1..Len(chans) : \E j \in 1..Len(chans[c].listeners) :
          chans[c].listeners[j].event = msg.event

\* ------------------------------------------------------------------ C7
\* C7: for one inbound Message the callbacks run in channel registration order
\* and, within a Channel, in listener registration order: Channel ids are given
\* in registration order, so the invocations go up in <<channel id, listener
\* index>>.
C7_DispatchInRegistrationOrder ==
    \A i \in 1..Len(invoked) : \A j \in 1..Len(invoked) :
        i < j => \/ invoked[i].chan < invoked[j].chan
                 \/ /\ invoked[i].chan = invoked[j].chan
                    /\ invoked[i].idx < invoked[j].idx

\* C7 witness: one Message was delivered to Listeners of two Channels.
C7_Witness ==
    /\ Len(invoked) >= 2
    /\ invoked[1].chan # invoked[2].chan

\* ------------------------------------------------------------------ C6
\* A frame as its receiver reads it: the heartbeat of section 6.
IsHeartbeat(text) ==
    /\ text.valid
    /\ JsonKeys(text) = MessageFields
    /\ json_loads(text)["topic"] = PHOENIX_CHANNEL
    /\ json_loads(text)["event"] = ChannelEvents_heartbeat
    /\ json_loads(text)["payload"] = HEARTBEAT_PAYLOAD
    /\ json_loads(text)["ref"] = None

TransportOpen == ws_connection # None /\ ws_open

\* Every frame sent is the heartbeat frame, and a frame is sent only on an open
\* transport.
HeartbeatSafety ==
    /\ [](wire # NoFrame => IsHeartbeat(wire))
    /\ [][(k_pc = "send" /\ k_pc' = "sleep") => (TransportOpen /\ wire' # NoFrame)]_vars
    /\ [][wire' # wire => (TransportOpen /\ k_pc = "send" /\ k_pc' = "sleep")]_vars

C8_ConnectedIffLiveTransport == connected <=> TransportOpen

\* ------------------------------------------------------------------ C9
\* The exceptions connect() ends with when no open transport was obtained: the
\* one websockets.connect raised, or Exception("Connection Failed").
ConnectionErrors == {"OSError", "Exception"}

C10_ListenGuardedThenStarts ==
    [][listen =>
          IF connected
          THEN /\ result'.exc = None
               /\ runState' = "running"
               /\ l_pc' = "recv"
               /\ k_pc' = "send"
          ELSE /\ result'.exc = "NotConnectedError"
               /\ UNCHANGED <<runState, listenVars, hbVars>>]_vars
\* ----------------------------------------------------------------- C11
\* A coroutine has terminated when it has returned or raised.
Terminated(pc) == pc \in {"done", "failed"}

RunOver == runState \in {"returned", "raised"}

\* C11 (as claimed): run() (listen) hands control back to its caller only when
\* both the heartbeat activity and the receive/dispatch activity have
\* terminated; in no execution is one of them still pending at that moment.
C11_RunEndsOnlyWhenBothTerminated ==
    RunOver => Terminated(l_pc) /\ Terminated(k_pc)

\* C11 (amended): run() returns normally only when both activities have
\* returned; it hands control back earlier only by raising, which it does
\* exactly when an activity has raised, and then with that activity's exception.
C11_ReturnsOnlyWhenBothDone ==
    /\ runState = "returned" => l_pc = "done" /\ k_pc = "done" /\ result.exc = None
    /\ runState = "raised" => /\ l_pc = "failed" \/ k_pc = "failed"
                              /\ result.exc \in {l_exc, k_exc} \ {None}

\* C11 witness: run() has returned normally, with both activities returned.
C11_Witness ==
    /\ runState = "returned"
    /\ l_pc = "done"
    /\ k_pc = "done"

\* ----------------------------------------------------------------- C12
\* The transport the Socket holds has closed.
TransportClosed == ws_connection # None /\ ~ws_open

\* C12: transport closure is a termination signal, not an error.  A receive on
\* a closed transport ends the receive activity cleanly (it returns, no error
\* recorded), a heartbeat send on a closed transport ends the heartbeat
\* activity the same way, and a run whose two activities ended like this
\* returns to its caller with no error.
C12_ClosureEndsCleanly ==
    [][/\ ((\E f \in InboundFrames : ListenRecv(f)) /\ TransportClosed)
            => l_pc' = "done" /\ l_exc' = None
       /\ (KeepAliveSend /\ TransportClosed)
            => k_pc' = "done" /\ k_exc' = None
       /\ (RunEnds /\ l_pc = "done" /\ k_pc = "done")
            => runState' = "returned" /\ result'.exc = None]_vars

\* C12 witness: heartbeats were sent, the transport closed, both activities
\* ended on it and run() returned without an error.
C12_Witness ==
    /\ TransportClosed
    /\ wire # NoFrame
    /\ l_pc = "done" /\ l_exc = None
    /\ k_pc = "done" /\ k_exc = None
    /\ runState = "returned"
    /\ result = [op |-> "func_listen", exc |-> None, ret |-> {}]

\* ----------------------------------------------------------------- C13
\* C13 (as claimed): Closed is terminal.  Once the transport of the Socket has
\* closed, no step of the core (connect, run, the two activities) opens a
\* transport again: the Socket never holds an open transport afterwards.
C13_ClosedIsTerminal ==
    [][TransportClosed => TransportClosed']_vars

\* C13 (amended): once the transport has closed, run() and its two activities
\* never open a new one and leave the handle and the connected flag as they
\* are; only a further call of connect() by the caller changes them.
C13_NoReconnectionByRun ==
    [][(TransportClosed /\ ~(\E o \in ConnectOutcomes : connect(o)))
          => /\ TransportClosed'
             /\ UNCHANGED <<ws_connection, connected>>]_vars

\* C13 witness: the run goes on after the transport closed: the heartbeat
\* activity has ended on it, the receive activity has not yet.
C13_Witness ==
    /\ TransportClosed
    /\ runState = "running"
    /\ k_pc = "done"
    /\ l_pc = "recv"

\* ----------------------------------------------------------------- C14
\* The events the Channels of each topic listen for, as <<topic, event>> pairs:
\* the Listeners the dispatch of lines 58-61 matches against.
ListenedFor ==
    UNION {UNION {{<<t, chans[channels[t][i]].listeners[j].event>> :
                      j \in 1..Len(chans[channels[t][i]].listeners)} :
                  i \in 1..Len(channels[t])} : t \in DOMAIN channels}

\* C14 (as claimed): summary() is read-only.  In any state it completes
\* without error, leaves the topic -> channel mapping, every Channel's
\* listeners, the connected flag and the transport handle unchanged, and
\* reports for each topic the events its Channels listen for.
C14_SummaryReadOnly ==
    [][summary => /\ result'.exc = None
                  /\ result'.ret = ListenedFor
                  /\ UNCHANGED <<channels, chans, connected, ws_connection>>]_vars

\* ----------------------------------------------------------------- C15
\* A frame that is no JSON object with exactly the fields of a Message.
Undecodable(text) ==
    \/ ~text.valid
    \/ {text.members[i][1] : i \in 1..Len(text.members)} # MessageFields

DecodeErrors == {"JSONDecodeError", "TypeError"}

\* C15: an inbound frame that cannot be decoded into a Message (invalid JSON,
\* a missing or an extra field) is not caught per frame.  Receiving it ends
\* the receive activity with the decode error and no callback; from then on
\* the activity receives and dispatches nothing; and the run ends by raising
\* that error to the caller of run().
C15_UndecodableFrameAbortsRun ==
    [][/\ \A f \in InboundFrames :
            (ListenRecv(f) /\ TransportOpen /\ Undecodable(f))
                => /\ l_pc' = "failed"
                   /\ l_exc' \in DecodeErrors
                   /\ invoked' = <<>>
       /\ (l_pc = "failed" /\ l_exc \in DecodeErrors)
            => /\ UNCHANGED <<l_pc, l_exc, msg, invoked>>
               /\ runState' \in {"running", "raised"}
               /\ runState' = "raised" => result'.exc = l_exc]_vars

\* C15 witness: an undecodable frame arrived on the open transport, the
\* receive activity ended on it and the caller of run() got the decode error.
C15_Witness ==
    /\ TransportOpen
    /\ l_pc = "failed"
    /\ l_exc \in DecodeErrors
    /\ runState = "raised"
    /\ result.op = "func_listen"
    /\ result.exc = l_exc

\* ----------------------------------------------------------------- C16
\* C16 (as claimed): once the transport closes while run() is executing, both
\* the receive activity and the heartbeat activity eventually terminate and
\* run() eventually hands control back; neither loops on the closed transport.
\* Stated for the closures that find both activities alive.
C16_ClosureTerminatesBoth ==
    (LoopRuns /\ TransportClosed /\ ~Terminated(l_pc) /\ ~Terminated(k_pc))
        ~> (Terminated(l_pc) /\ Terminated(k_pc) /\ RunOver)

\* C16 (amended): once the transport closes while run() is executing, the run
\* eventually ends: either both activities return and run() returns, or the
\* receive activity has failed (a frame that did not decode before the
\* closure, a callback that raises) and run() raises that failure.
C16_ClosureEndsRun ==
    (LoopRuns /\ TransportClosed)
        ~> \/ runState = "returned" /\ l_pc = "done" /\ k_pc = "done"
           \/ runState = "raised" /\ l_pc = "failed"

\* C16 witness: frames were received, the transport closed during the run,
\* and the run has returned with both activities returned.
C16_Witness ==
    /\ TransportClosed
    /\ msg # NoMsg
    /\ runState = "returned"
    /\ l_pc = "done"
    /\ k_pc = "done"

\* ----------------------------------------------------------------- C17
\* The frame last received still has callbacks to run: it is no reply, no
\* callback raised, and a matching Listener has not been invoked yet.
DispatchPending ==
    /\ msg # NoMsg
    /\ msg.event # ChannelEvents_reply
    /\ ~SomeCallbackRaised
    /\ InvokedListeners # MatchingListeners(msg)

\* C17: callbacks run synchronously on the receive/dispatch activity, in frame
\* arrival order.  While callbacks of the frame last received are still to
\* run, a step runs at most the next one of them: the next frame is not
\* received, no callback for it starts, and the heartbeat activity takes no
\* step (no send interleaves inside the dispatch of one frame).
C17_CallbacksCompleteBeforeNextFrame ==
    [][DispatchPending
          => /\ msg' = msg
             /\ \/ invoked' = invoked
                \/ /\ Len(invoked') = Len(invoked) + 1
                   /\ SubSeq(invoked', 1, Len(invoked)) = invoked
             /\ UNCHANGED <<k_pc, k_exc, wire>>]_vars

\* C17 witness: in the middle of a dispatch, one callback of two has run,
\* while the heartbeat activity is ready to send again.
C17_Witness ==
    /\ l_pc = "dispatch"
    /\ Len(invoked) = 1
    /\ Cardinality(MatchingListeners(msg)) = 2
    /\ wire # NoFrame
    /\ k_pc = "send"

\* ----------------------------------------------------------------- C18
\* A step of one of the two activities.
ActivityStep ==
    \/ \E f \in InboundFrames : ListenRecv(f)
    \/ \E o \in {"returns", "raises"} : Dispatch(o)
    \/ KeepAliveSend
    \/ KeepAliveWake

\* C18: under every interleaving of the heartbeat activity and the
\* receive/dispatch activity, no step of either (a heartbeat send, the end of
\* a sleep, a receive, a discarded reply, a dispatch, the termination on a
\* closed transport) writes the topic -> channel mapping, the connected flag
\* or the transport handle.
C18_ActivitiesWriteNoSharedState ==
    [][ActivityStep => UNCHANGED <<channels, connected, ws_connection>>]_vars

\* C18 witness: both activities have run in the same run: a heartbeat is out
\* and the heartbeat activity sleeps, a frame was dispatched to a callback and
\* the receive activity awaits the next frame.
C18_Witness ==
    /\ runState = "running"
    /\ wire # NoFrame
    /\ k_pc = "sleep"
    /\ l_pc = "recv"
    /\ invoked # <<>>
    /\ connected
    /\ ws_connection = Handle
    /\ DOMAIN channels # {}

\* ----------------------------------------------------------------- C19
\* C19: a callback that raises while a frame is dispatched is not isolated.
\* The raise ends the receive activity with the callback's exception; from
\* then on no further Listener is invoked, for this frame or a later one, and
\* no later frame is received; and the run ends by raising that exception to
\* the caller of run().
C19_RaisingCallbackAbortsRun ==
    [][/\ SomeCallbackRaised'
            => /\ l_pc' = "failed"
               /\ l_exc' = "CallbackError"
               /\ invoked'[Len(invoked')].outcome = "raises"
               /\ runState' \in {"running", "raised"}
               /\ runState' = "raised" => result'.exc = "CallbackError"
       /\ SomeCallbackRaised => UNCHANGED <<msg, invoked>>]_vars

\* C19 witness: two Listeners match the frame, the first one's callback raised,
\* the second was not invoked, and the caller of run() got the exception.
C19_Witness ==
    /\ SomeCallbackRaised
    /\ Len(invoked) = 1
    /\ Cardinality(MatchingListeners(msg)) = 2
    /\ runState = "raised"
    /\ result.op = "func_listen"
    /\ result.exc = "CallbackError"

=============================================================================
